---- MODULE Spec2Model ----
(***************************************************************************)
(* A model of the redshift-avro Lambda UDFs: the Spring-Cloud embedded     *)
(* header parser, the schema caches and the batch handlers.                *)
(*                                                                         *)
(* Python values are tagged records: [t |-> "str", v |-> code points],     *)
(* [t |-> "int", v |-> n], [t |-> "bool", v |-> b], [t |-> "none"],        *)
(* [t |-> "list", v |-> <<values>>], [t |-> "dict", v |-> <<pairs>>].      *)
(* Bytes are sequences of 0..255, text is a sequence of code points.       *)
(* An exception is [type |-> name, msg |-> parts], msg being str(e).       *)
(***************************************************************************)
EXTENDS Integers, Sequences, FiniteSets, TLC

VARIABLES
    module,     \* the Lambda function this process runs
    payload,    \* the BytesIO buffer handed to get_message_headers
    pos,        \* its cursor: the number of bytes consumed
    frame,      \* how payload was built: magic byte, header entries, body
    pc,         \* "start"; "returned" or "raised" (get_message_headers), "read";
                \* "handled" (springboot_handler); "decoded" (the sub-payload loop)
    headers,    \* the mapping get_message_headers returned
    exc,        \* the exception it raised, NoExc when it returned
    rest,       \* what payload.read() returned after the call
    mapping,    \* the header mapping payload was encoded from, if it was
    event,      \* the event of the last handler invocation
    handler,    \* the handler last invoked, and the environment it ran in
    resp,       \* the response it returned
    schemas,    \* SpringSchemaRegistry._schemas: schema_id -> schema
    lookups,    \* external registry requests made, per schema_id
    stored,     \* registry responses parsed and stored, per schema_id
    got,        \* the last SpringSchemaRegistry.get: id, how it ended, what it returned
    lru,        \* the lru_cache of _get_schema: stream names, least recent first
    glueCalls,  \* glue.get_schema_version calls made, per stream name
    seen        \* the stream names _get_schema has resolved

vars == <<module, payload, pos, frame, pc, headers, exc, rest, mapping, event, handler,
          resp, schemas, lookups, stored, got, lru, glueCalls, seen>>

hdrVars == <<payload, pos, frame, pc, headers, exc, rest, mapping>>
evtVars == <<event, handler, resp>>
regVars == <<schemas, lookups, stored, got>>
glueVars == <<lru, glueCalls, seen>>

-----------------------------------------------------------------------------
(* Bounds of the model. *)

MaxHeaders == 2     \* header entries of a generated frame
MaxBatch == 2       \* records of a generated batch
MaxGets == 3        \* external lookups per schema id the registry model counts

-----------------------------------------------------------------------------
(* Python basics. *)

Min(a, b) == IF a < b THEN a ELSE b

(* F applied to the value of v, which is computed once: a local name bound  *)
(* to the result of a call, as an assignment binds it.                      *)
With(v, F(_)) == CHOOSE y \in {F(x) : x \in {v}} : TRUE

NoExc == [type |-> "none", msg |-> <<>>]
Exc(type, msg) == [type |-> type, msg |-> msg]

PyStr(s) == [t |-> "str", v |-> s]
PyInt(n) == [t |-> "int", v |-> n]
PyBool(b) == [t |-> "bool", v |-> b]
PyNone == [t |-> "none"]
PyList(l) == [t |-> "list", v |-> l]
PyDict(d) == [t |-> "dict", v |-> d]

RECURSIVE SeqsUpTo(_, _)
SeqsUpTo(S, n) ==
    IF n = 0 THEN {<<>>}
    ELSE LET shorter == SeqsUpTo(S, n - 1)
         IN  shorter \cup {Append(s, x) : s \in {q \in shorter : Len(q) = n - 1}, x \in S}

(* dict.setdefault(key, value) in the place of dict[key] = value. *)
DictSetDefault(d, k, v) ==
    IF \E i \in DOMAIN d : d[i][1] = k THEN d ELSE Append(d, <<k, v>>)

(* dict[key] = value: a new key goes last, an old key keeps its place. *)
DictSet(d, k, v) ==
    IF \E i \in DOMAIN d : d[i][1] = k
    THEN [i \in DOMAIN d |-> IF d[i][1] = k THEN <<k, v>> ELSE d[i]]
    ELSE Append(d, <<k, v>>)

DictHas(d, k) == \E i \in DOMAIN d : d[i][1] = k
DictGet(d, k) == d[CHOOSE i \in DOMAIN d : d[i][1] = k][2]

(* payload.read(n): at most n bytes from the cursor, which moves past them. *)
Read(buf, p, n) ==
    LET q == Min(p + n, Len(buf))
    IN  [data |-> SubSeq(buf, p + 1, q), pos |-> q]

RECURSIVE BitAnd(_, _)
BitAnd(a, b) ==
    IF a = 0 \/ b = 0 THEN 0
    ELSE (a % 2) * (b % 2) + 2 * BitAnd(a \div 2, b \div 2)

-----------------------------------------------------------------------------
(* str.decode("utf-8"): bytes to code points, or UnicodeDecodeError.  A run *)
(* of ASCII bytes decodes to itself.                                       *)

IsCont(b) == b >= 128 /\ b <= 191

RECURSIVE Utf8Decode(_, _, _)
Utf8Decode(bs, i, acc) ==
    IF i > Len(bs) THEN [ok |-> TRUE, v |-> acc]
    ELSE IF \A j \in i..Len(bs) : bs[j] < 128
    THEN [ok |-> TRUE, v |-> acc \o SubSeq(bs, i, Len(bs))]
    ELSE LET b == bs[i]
             has(n) == i + n <= Len(bs) /\ \A j \in 1..n : IsCont(bs[i + j])
         IN  IF b < 128 THEN Utf8Decode(bs, i + 1, Append(acc, b))
             ELSE IF b >= 194 /\ b <= 223 /\ has(1)
             THEN Utf8Decode(bs, i + 2,
                      Append(acc, (b - 192) * 64 + (bs[i + 1] - 128)))
             ELSE IF b >= 224 /\ b <= 239 /\ has(2)
                     /\ (b = 224 => bs[i + 1] >= 160)
                     /\ (b = 237 => bs[i + 1] <= 159)
             THEN Utf8Decode(bs, i + 3,
                      Append(acc, (b - 224) * 4096 + (bs[i + 1] - 128) * 64
                                  + (bs[i + 2] - 128)))
             ELSE IF b >= 240 /\ b <= 244 /\ has(3)
                     /\ (b = 240 => bs[i + 1] >= 144)
                     /\ (b = 244 => bs[i + 1] <= 143)
             THEN Utf8Decode(bs, i + 4,
                      Append(acc, (b - 240) * 262144 + (bs[i + 1] - 128) * 4096
                                  + (bs[i + 2] - 128) * 64 + (bs[i + 3] - 128)))
             ELSE [ok |-> FALSE, v |-> <<>>]

-----------------------------------------------------------------------------
(* json.loads on the texts the model generates: a string, an integer,      *)
(* true, false or null, with white space around it.  The generated header  *)
(* values hold no bracket, brace, point or exponent, so no other JSON text *)
(* occurs.                                                                 *)

IsWs(c) == c \in {32, 9, 10, 13}
IsDigit(c) == c >= 48 /\ c <= 57

RECURSIVE Strip(_)
Strip(s) ==
    IF s = <<>> THEN s
    ELSE IF IsWs(s[1]) THEN Strip(Tail(s))
    ELSE IF IsWs(s[Len(s)]) THEN Strip(SubSeq(s, 1, Len(s) - 1))
    ELSE s

RECURSIVE DecimalValue(_, _)
DecimalValue(s, acc) ==
    IF s = <<>> THEN acc ELSE DecimalValue(Tail(s), 10 * acc + (s[1] - 48))

IsJsonNumber(s) ==
    LET d == IF s # <<>> /\ s[1] = 45 THEN Tail(s) ELSE s
    IN  /\ d # <<>>
        /\ \A i \in DOMAIN d : IsDigit(d[i])
        /\ (Len(d) > 1 => d[1] # 48)

IsHexDigit(c) == IsDigit(c) \/ (c >= 97 /\ c <= 102) \/ (c >= 65 /\ c <= 70)
HexDigitValue(c) ==
    IF IsDigit(c) THEN c - 48 ELSE IF c >= 97 THEN c - 87 ELSE c - 55

Hex4Value(s, i) ==
    4096 * HexDigitValue(s[i]) + 256 * HexDigitValue(s[i + 1])
        + 16 * HexDigitValue(s[i + 2]) + HexDigitValue(s[i + 3])

IsHex4(s, i) == i + 3 <= Len(s) /\ \A j \in 0..3 : IsHexDigit(s[i + j])

(* The characters between the quotes of a JSON string (scanstring): a      *)
(* backslash escape is one of \" \\ \/ \b \f \n \r \t or \uXXXX, a high        *)
(* surrogate followed by a low one is one code point, and a bare quote or  *)
(* control character is an error.                                          *)
RECURSIVE JsonUnescape(_, _, _)
JsonUnescape(s, i, acc) ==
    IF i > Len(s) THEN [ok |-> TRUE, v |-> acc]
    ELSE IF s[i] = 34 \/ s[i] < 32 THEN [ok |-> FALSE, v |-> <<>>]
    ELSE IF s[i] # 92 THEN JsonUnescape(s, i + 1, Append(acc, s[i]))
    ELSE IF i = Len(s) THEN [ok |-> FALSE, v |-> <<>>]
    ELSE IF s[i + 1] \in {34, 92, 47} THEN JsonUnescape(s, i + 2, Append(acc, s[i + 1]))
    ELSE IF s[i + 1] = 98 THEN JsonUnescape(s, i + 2, Append(acc, 8))
    ELSE IF s[i + 1] = 102 THEN JsonUnescape(s, i + 2, Append(acc, 12))
    ELSE IF s[i + 1] = 110 THEN JsonUnescape(s, i + 2, Append(acc, 10))
    ELSE IF s[i + 1] = 114 THEN JsonUnescape(s, i + 2, Append(acc, 13))
    ELSE IF s[i + 1] = 116 THEN JsonUnescape(s, i + 2, Append(acc, 9))
    ELSE IF s[i + 1] # 117 \/ ~IsHex4(s, i + 2) THEN [ok |-> FALSE, v |-> <<>>]
    ELSE LET uni == Hex4Value(s, i + 2)
             paired == /\ uni >= 55296 /\ uni <= 56319
                       /\ i + 7 <= Len(s) /\ s[i + 6] = 92 /\ s[i + 7] = 117
                       /\ IsHex4(s, i + 8)
                       /\ Hex4Value(s, i + 8) >= 56320 /\ Hex4Value(s, i + 8) <= 57343
         IN  IF paired
             THEN JsonUnescape(s, i + 12,
                      Append(acc, 65536 + (uni - 55296) * 1024
                                        + (Hex4Value(s, i + 8) - 56320)))
             ELSE JsonUnescape(s, i + 6, Append(acc, uni))

IsJsonString(s) ==
    /\ Len(s) >= 2
    /\ s[1] = 34
    /\ s[Len(s)] = 34
    /\ JsonUnescape(SubSeq(s, 2, Len(s) - 1), 1, <<>>).ok

JsonLoads(text) ==
    With(Strip(text), LAMBDA s :
        IF IsJsonString(s)
        THEN [ok |-> TRUE, v |-> PyStr(JsonUnescape(SubSeq(s, 2, Len(s) - 1), 1, <<>>).v)]
        ELSE IF IsJsonNumber(s)
        THEN [ok |-> TRUE,
              v |-> PyInt(IF s[1] = 45 THEN 0 - DecimalValue(Tail(s), 0)
                          ELSE DecimalValue(s, 0))]
        ELSE IF s = <<116, 114, 117, 101>> THEN [ok |-> TRUE, v |-> PyBool(TRUE)]
        ELSE IF s = <<102, 97, 108, 115, 101>> THEN [ok |-> TRUE, v |-> PyBool(FALSE)]
        ELSE IF s = <<110, 117, 108, 108>> THEN [ok |-> TRUE, v |-> PyNone]
        ELSE [ok |-> FALSE, v |-> PyNone])

-----------------------------------------------------------------------------
(* SpringEmbeddedMessageUtils. *)

MAX_ONE_BYTE_INT == 255

(* 0xFFFFFFFF as its four big-endian bytes: the number exceeds TLC's integers. *)
MAX_FOUR_BYTE_INT == <<255, 255, 255, 255>>

(* The four big-endian bytes of a number below 2^31. *)
UIntBytes(n) ==
    <<(n \div 16777216) % 256, (n \div 65536) % 256, (n \div 256) % 256, n % 256>>

(* The number the four bytes hold when read little-endian ("<I"). *)
UIntValueLittleEndian(b) ==
    IF b[4] >= 128 THEN 2147483647
    ELSE b[4] * 16777216 + b[3] * 65536 + b[2] * 256 + b[1]

(* The number four big-endian bytes hold; 2^31 - 1 stands for every number *)
(* from 2^31 on, all of which exceed the length of any buffer here.        *)
UIntValue(b) ==
    IF b[1] >= 128 THEN 2147483647
    ELSE b[1] * 16777216 + b[2] * 65536 + b[3] * 256 + b[4]

(* _read_uint: struct.unpack(">I", padding + data) needs exactly 4 bytes,  *)
(* so a short read raises struct.error; max_size is given as 4 bytes.      *)
ReadUintMasked(data, max_size) ==
    UIntValue([i \in 1..4 |-> BitAnd(data[i], max_size[i])])

ReadUint(buf, p, bytesize, max_size) ==
    With(Read(buf, p, bytesize), LAMBDA r :
    With([i \in 1..(4 - bytesize) |-> 0] \o r.data, LAMBDA padded :
        IF Len(padded) # 4
        THEN [exc |-> Exc("struct.error",
                          <<"unpack requires a buffer of ", ToString(4), " bytes">>),
              v |-> 0, pos |-> r.pos]
        ELSE [exc |-> NoExc, v |-> ReadUintMasked(padded, max_size), pos |-> r.pos]))

(* A _read_string that decodes whatever payload.read returned. *)
ReadStringShort(buf, p, bytesize) ==
    With(Read(buf, p, bytesize), LAMBDA r :
    With(Utf8Decode(r.data, 1, <<>>), LAMBDA d :
        IF ~d.ok
        THEN [exc |-> Exc("UnicodeDecodeError", <<"'utf-8' codec can't decode byte">>),
              v |-> <<>>, pos |-> r.pos]
        ELSE [exc |-> NoExc, v |-> d.v, pos |-> r.pos]))

(* _read_string: struct.unpack(f"{bytesize}s", value) needs exactly        *)
(* bytesize bytes; then the bytes are decoded as UTF-8.                    *)
ReadString(buf, p, bytesize) ==
    With(Read(buf, p, bytesize), LAMBDA r :
        IF Len(r.data) # bytesize
        THEN [exc |-> Exc("struct.error",
                          <<"unpack requires a buffer of ", ToString(bytesize), " bytes">>),
              v |-> <<>>, pos |-> r.pos]
        ELSE With(Utf8Decode(r.data, 1, <<>>), LAMBDA d :
            IF ~d.ok
            THEN [exc |-> Exc("UnicodeDecodeError",
                              <<"'utf-8' codec can't decode byte">>),
                  v |-> <<>>, pos |-> r.pos]
            ELSE [exc |-> NoExc, v |-> d.v, pos |-> r.pos]))

(* One pass of the loop of get_message_headers. *)
ReadHeaderValue(buf, p) ==
    With(ReadUint(buf, p, 4, MAX_FOUR_BYTE_INT), LAMBDA value_size :
        IF value_size.exc # NoExc THEN value_size
        ELSE With(ReadString(buf, value_size.pos, value_size.v), LAMBDA value :
            IF value.exc # NoExc THEN value
            ELSE With(JsonLoads(value.v), LAMBDA loaded :
                IF ~loaded.ok
                THEN [exc |-> Exc("JSONDecodeError", <<"Expecting value">>),
                      v |-> <<>>, pos |-> value.pos]
                ELSE [exc |-> NoExc, v |-> loaded.v, pos |-> value.pos])))

ReadHeaderKey(buf, p) ==
    With(ReadUint(buf, p, 1, UIntBytes(MAX_ONE_BYTE_INT)), LAMBDA key_size :
        IF key_size.exc # NoExc THEN key_size
        ELSE ReadString(buf, key_size.pos, key_size.v))

RECURSIVE HeaderLoop(_, _, _, _)
HeaderLoop(buf, p, remaining, hdrs) ==
    IF remaining = 0 THEN [exc |-> NoExc, v |-> hdrs, pos |-> p]
    ELSE With(ReadHeaderKey(buf, p), LAMBDA key :
        IF key.exc # NoExc THEN [exc |-> key.exc, v |-> <<>>, pos |-> key.pos]
        ELSE With(ReadHeaderValue(buf, key.pos), LAMBDA value :
            IF value.exc # NoExc
            THEN [exc |-> value.exc, v |-> <<>>, pos |-> value.pos]
            ELSE With(DictSet(hdrs, key.v, value.v), LAMBDA set :
                HeaderLoop(buf, value.pos, remaining - 1, set))))

(* A get_message_headers that puts the cursor back when it finds no magic  *)
(* byte.                                                                   *)
get_message_headers_unread(buf, p) ==
    With(ReadUint(buf, p, 1, UIntBytes(MAX_ONE_BYTE_INT)), LAMBDA magic_flag :
        IF magic_flag.exc # NoExc
        THEN [exc |-> magic_flag.exc, v |-> <<>>, pos |-> magic_flag.pos]
        ELSE IF magic_flag.v # MAX_ONE_BYTE_INT
        THEN [exc |-> NoExc, v |-> <<>>, pos |-> p]
        ELSE With(ReadUint(buf, magic_flag.pos, 1, UIntBytes(MAX_ONE_BYTE_INT)),
                  LAMBDA header_count :
            IF header_count.exc # NoExc
            THEN [exc |-> header_count.exc, v |-> <<>>, pos |-> header_count.pos]
            ELSE HeaderLoop(buf, header_count.pos, header_count.v, <<>>)))

(* get_message_headers(payload) with the cursor at p: the mapping and the  *)
(* cursor after it, or the exception raised.                               *)
get_message_headers(buf, p) ==
    With(ReadUint(buf, p, 1, UIntBytes(MAX_ONE_BYTE_INT)), LAMBDA magic_flag :
        IF magic_flag.exc # NoExc
        THEN [exc |-> magic_flag.exc, v |-> <<>>, pos |-> magic_flag.pos]
        ELSE IF magic_flag.v # MAX_ONE_BYTE_INT
        THEN [exc |-> NoExc, v |-> <<>>, pos |-> magic_flag.pos]
        ELSE With(ReadUint(buf, magic_flag.pos, 1, UIntBytes(MAX_ONE_BYTE_INT)),
                  LAMBDA header_count :
            IF header_count.exc # NoExc
            THEN [exc |-> header_count.exc, v |-> <<>>, pos |-> header_count.pos]
            ELSE HeaderLoop(buf, header_count.pos, header_count.v, <<>>)))

-----------------------------------------------------------------------------
(* The header frames the model parses, after test_get_message_headers.     *)

Foo == <<102, 111, 111>>                    \* foo
Baz == <<98, 97, 122>>                      \* baz
JsonBar == <<34, 98, 97, 114, 34>>          \* "bar"
JsonQuxx == <<34, 113, 117, 120, 120, 34>>  \* "quxx"
Hello == <<72, 101, 108, 108, 111>>         \* Hello

SampleMagic == {255, 0}

(* foo: "bar", baz: "quxx", foo again with another value, a value that is   *)
(* not JSON, a key that is not UTF-8.                                       *)
SampleEntries ==
    {[key |-> Foo, value |-> JsonBar], [key |-> Baz, value |-> JsonQuxx],
     [key |-> Foo, value |-> JsonQuxx], [key |-> Baz, value |-> <<98, 97, 114>>],
     [key |-> <<200>>, value |-> JsonBar]}

(* Every prefix of a frame is parsed too, so the body is any prefix of Hello. *)
SampleFrames ==
    [magic : SampleMagic, entries : SeqsUpTo(SampleEntries, MaxHeaders), body : {Hello}]

(* The documented framing of one entry and of a header block. *)
EncodeEntry(e) ==
    <<Len(e.key)>> \o e.key \o UIntBytes(Len(e.value)) \o e.value

RECURSIVE EncodeEntries(_)
EncodeEntries(es) ==
    IF es = <<>> THEN <<>> ELSE EncodeEntry(Head(es)) \o EncodeEntries(Tail(es))

EncodeHeaders(magic, es) == <<magic, Len(es)>> \o EncodeEntries(es)

EncodeFrame(f) == EncodeHeaders(f.magic, f.entries) \o f.body

-----------------------------------------------------------------------------
(* bytes.fromhex(text): two hex digits a byte, ASCII white space between   *)
(* bytes skipped; ValueError otherwise, TypeError when text is no str.     *)

RECURSIVE FromHexAt(_, _, _)
FromHexAt(s, i, acc) ==
    IF i > Len(s) THEN [exc |-> NoExc, v |-> acc]
    ELSE IF IsWs(s[i]) \/ s[i] = 11 \/ s[i] = 12 THEN FromHexAt(s, i + 1, acc)
    ELSE IF i + 1 <= Len(s) /\ IsHexDigit(s[i]) /\ IsHexDigit(s[i + 1])
    THEN FromHexAt(s, i + 2,
             Append(acc, 16 * HexDigitValue(s[i]) + HexDigitValue(s[i + 1])))
    ELSE [exc |-> Exc("ValueError",
                      <<"non-hexadecimal number found in fromhex() arg">>),
          v |-> <<>>]

FromHex(x) ==
    IF x.t # "str"
    THEN [exc |-> Exc("TypeError", <<"fromhex() argument must be str">>), v |-> <<>>]
    ELSE FromHexAt(x.v, 1, <<>>)

(* bytes.hex(), as test_lambda_handler builds its argument. *)
HexChar(d) == IF d < 10 THEN 48 + d ELSE 87 + d

RECURSIVE ToHex(_)
ToHex(bs) ==
    IF bs = <<>> THEN <<>>
    ELSE <<HexChar(bs[1] \div 16), HexChar(bs[1] % 16)>> \o ToHex(Tail(bs))

-----------------------------------------------------------------------------
(* The Avro binary decoding the handlers delegate to (avro.io.DatumReader), *)
(* for the schema types the model uses: null, int, string, union, record.   *)

NullSchema == [type |-> "null"]
IntSchema == [type |-> "int"]
StringSchema == [type |-> "string"]
UnionSchema(of) == [type |-> "union", of |-> of]
RecordSchema(fields) == [type |-> "record", fields |-> fields]

(* The schema of LambdaHandler.__init__ and of test_lambda_handler. *)
UserSchema ==
    RecordSchema(<<
        [name |-> <<110, 97, 109, 101>>, type |-> StringSchema],
        [name |-> <<102, 97, 118, 111, 114, 105, 116, 101, 95, 110, 117, 109, 98,
                    101, 114>>,
         type |-> UnionSchema(<<IntSchema, NullSchema>>)],
        [name |-> <<102, 97, 118, 111, 114, 105, 116, 101, 95, 99, 111, 108, 111,
                    114>>,
         type |-> UnionSchema(<<StringSchema, NullSchema>>)] >>)

AvroEof == Exc("InvalidAvroBinaryEncoding", <<"Read past the end of the input">>)

(* A zig-zag variable-length integer. *)
RECURSIVE ReadVarint(_, _, _, _)
ReadVarint(buf, p, mult, acc) ==
    IF p >= Len(buf) THEN [exc |-> AvroEof, v |-> 0, pos |-> p]
    ELSE LET b == buf[p + 1]
             n == acc + (b % 128) * mult
         IN  IF b >= 128 THEN ReadVarint(buf, p + 1, mult * 128, n)
             ELSE [exc |-> NoExc,
                   v |-> IF n % 2 = 0 THEN n \div 2 ELSE 0 - ((n + 1) \div 2),
                   pos |-> p + 1]

ReadAvroString(buf, p) ==
    With(ReadVarint(buf, p, 1, 0), LAMBDA n :
        IF n.exc # NoExc THEN n
        ELSE With(Read(buf, n.pos, n.v), LAMBDA r :
            IF n.v < 0 \/ Len(r.data) # n.v
            THEN [exc |-> AvroEof, v |-> 0, pos |-> n.pos]
            ELSE With(Utf8Decode(r.data, 1, <<>>), LAMBDA d :
                IF ~d.ok
                THEN [exc |-> Exc("UnicodeDecodeError",
                                  <<"'utf-8' codec can't decode byte">>),
                      v |-> 0, pos |-> r.pos]
                ELSE [exc |-> NoExc, v |-> PyStr(d.v), pos |-> r.pos])))

RECURSIVE DatumRead(_, _, _)
RECURSIVE ReadFields(_, _, _, _)

DatumRead(schema, buf, p) ==
    IF schema.type = "null" THEN [exc |-> NoExc, v |-> PyNone, pos |-> p]
    ELSE IF schema.type = "int"
    THEN With(ReadVarint(buf, p, 1, 0), LAMBDA n :
             IF n.exc # NoExc THEN n ELSE [exc |-> NoExc, v |-> PyInt(n.v), pos |-> n.pos])
    ELSE IF schema.type = "string" THEN ReadAvroString(buf, p)
    ELSE IF schema.type = "union"
    THEN With(ReadVarint(buf, p, 1, 0), LAMBDA index :
             IF index.exc # NoExc THEN index
             ELSE IF index.v < 0 \/ index.v >= Len(schema.of)
             THEN [exc |-> Exc("InvalidAvroBinaryEncoding",
                               <<"Union branch index out of range">>),
                   v |-> 0, pos |-> index.pos]
             ELSE DatumRead(schema.of[index.v + 1], buf, index.pos))
    ELSE ReadFields(schema.fields, buf, p, <<>>)

ReadFields(fields, buf, p, acc) ==
    IF fields = <<>> THEN [exc |-> NoExc, v |-> PyDict(acc), pos |-> p]
    ELSE With(DatumRead(Head(fields).type, buf, p), LAMBDA f :
             IF f.exc # NoExc THEN f
             ELSE With(Append(acc, <<Head(fields).name, f.v>>), LAMBDA read :
                      ReadFields(Tail(fields), buf, f.pos, read)))

(* LambdaHandler.decode_avro: one datum from the start of the bytes; what   *)
(* follows the datum is not looked at.                                      *)
decode_avro(data, schema) == DatumRead(schema, data, 0)

(* The Avro object container file (avro.datafile.DataFileReader), reduced   *)
(* to: the magic Obj\x01, one byte standing for the avro.schema metadata    *)
(* (0: "int", 1: the User record), the number of datums, the datums.        *)
FileMagic == <<79, 98, 106, 1>>

RECURSIVE ReadDatums(_, _, _, _, _)
ReadDatums(schema, buf, p, n, acc) ==
    IF n <= 0 THEN [exc |-> NoExc, v |-> acc]
    ELSE With(DatumRead(schema, buf, p), LAMBDA d :
             IF d.exc # NoExc THEN [exc |-> d.exc, v |-> <<>>]
             ELSE With(Append(acc, d.v), LAMBDA read :
                      ReadDatums(schema, buf, d.pos, n - 1, read)))

(* LambdaHandler.decode_file: list(DataFileReader(data, DatumReader())). *)
decode_file(data) ==
    With(Read(data, 0, 4), LAMBDA magic :
        IF magic.data # FileMagic
        THEN [exc |-> Exc("DataFileException", <<"Not an Avro data file">>), v |-> <<>>]
        ELSE With(Read(data, magic.pos, 1), LAMBDA meta :
            IF meta.data \notin {<<0>>, <<1>>}
            THEN [exc |-> Exc("SchemaParseException", <<"Error parsing JSON">>),
                  v |-> <<>>]
            ELSE With(ReadVarint(data, meta.pos, 1, 0), LAMBDA count :
                IF count.exc # NoExc THEN [exc |-> count.exc, v |-> <<>>]
                ELSE With(ReadDatums(IF meta.data = <<0>> THEN IntSchema ELSE UserSchema,
                                     data, count.pos, count.v, <<>>), LAMBDA datums :
                    IF datums.exc # NoExc THEN datums
                    ELSE [exc |-> NoExc, v |-> PyList(datums.v)]))))

-----------------------------------------------------------------------------
(* json.dumps(value): the JSON text, as code points. *)

RECURSIVE DecimalText(_)
DecimalText(n) ==
    IF n < 0 THEN <<45>> \o DecimalText(0 - n)
    ELSE IF n < 10 THEN <<48 + n>>
    ELSE DecimalText(n \div 10) \o <<48 + (n % 10)>>

Hex4(n) ==
    <<92, 117, HexChar((n \div 4096) % 16), HexChar((n \div 256) % 16),
      HexChar((n \div 16) % 16), HexChar(n % 16)>>

EscapeChar(c) ==
    IF c = 34 THEN <<92, 34>>
    ELSE IF c = 92 THEN <<92, 92>>
    ELSE IF c = 10 THEN <<92, 110>>
    ELSE IF c = 13 THEN <<92, 114>>
    ELSE IF c = 9 THEN <<92, 116>>
    ELSE IF c = 8 THEN <<92, 98>>
    ELSE IF c = 12 THEN <<92, 102>>
    ELSE IF c >= 32 /\ c <= 126 THEN <<c>>
    ELSE IF c < 65536 THEN Hex4(c)
    ELSE Hex4(55296 + ((c - 65536) \div 1024)) \o Hex4(56320 + ((c - 65536) % 1024))

RECURSIVE EscapeText(_)
EscapeText(s) == IF s = <<>> THEN <<>> ELSE EscapeChar(Head(s)) \o EscapeText(Tail(s))

QuotedText(s) == <<34>> \o EscapeText(s) \o <<34>>

RECURSIVE JsonDumps(_)
RECURSIVE DumpItems(_)
RECURSIVE DumpPairs(_)

JsonDumps(x) ==
    IF x.t = "none" THEN <<110, 117, 108, 108>>
    ELSE IF x.t = "bool"
    THEN (IF x.v THEN <<116, 114, 117, 101>> ELSE <<102, 97, 108, 115, 101>>)
    ELSE IF x.t = "int" THEN DecimalText(x.v)
    ELSE IF x.t = "str" THEN QuotedText(x.v)
    ELSE IF x.t = "list" THEN <<91>> \o DumpItems(x.v) \o <<93>>
    ELSE <<123>> \o DumpPairs(x.v) \o <<125>>

DumpItems(l) ==
    IF l = <<>> THEN <<>>
    ELSE IF Len(l) = 1 THEN JsonDumps(l[1])
    ELSE JsonDumps(l[1]) \o <<44, 32>> \o DumpItems(Tail(l))

DumpPairs(d) ==
    IF d = <<>> THEN <<>>
    ELSE LET one == QuotedText(d[1][1]) \o <<58, 32>> \o JsonDumps(d[1][2])
         IN  IF Len(d) = 1 THEN one ELSE one \o <<44, 32>> \o DumpPairs(Tail(d))

(* list(text): the characters of a str, each a str of its own. *)
ListOfStr(x) == PyList([i \in DOMAIN x.v |-> PyStr(<<x.v[i]>>)])

-----------------------------------------------------------------------------
(* Dictionaries and counters whose order does not matter are functions. *)

Empty == <<>>
Put(f, k, v) == (k :> v) @@ f
Count(f, k) == IF k \in DOMAIN f THEN f[k] ELSE 0
Bump(f, k) == Put(f, k, Count(f, k) + 1)

-----------------------------------------------------------------------------
(* SpringSchemaRegistry.  The registry service is the environment: it holds *)
(* a definition per schema id and is up or down at each request.  A         *)
(* definition is the schema its text parses to, or text that parses to none.*)

SchemaId1 == PyStr(<<115, 49>>)     \* s1
SchemaId2 == PyStr(<<115, 50>>)     \* s2
SchemaId3 == PyStr(<<115, 51>>)     \* s3: its definition does not parse
SchemaId4 == PyStr(<<115, 52>>)     \* s4: not in the registry

Definition(schema) == [found |-> TRUE, parses |-> TRUE, schema |-> schema]
Garbage == [found |-> TRUE, parses |-> FALSE, schema |-> NullSchema]
NotFound == [found |-> FALSE, parses |-> FALSE, schema |-> NullSchema]

RegistryContent ==
    Put(Put(Put(Empty, SchemaId1, Definition(UserSchema)),
            SchemaId2, Definition(IntSchema)),
        SchemaId3, Garbage)

NewRegistry == [schemas |-> Empty, lookups |-> Empty, stored |-> Empty]

(* _get_registry_response: requests.get and raise_for_status. *)
RegistryResponse(schema_id, up) ==
    IF up /\ schema_id \in DOMAIN RegistryContent
    THEN [exc |-> NoExc, v |-> RegistryContent[schema_id]]
    ELSE [exc |-> Exc("HTTPError", <<"Client or Server Error for url">>), v |-> NotFound]

(* _parse_registry_response: avro.schema.parse. *)
ParseRegistryResponse(response) ==
    IF ~response.parses
    THEN [exc |-> Exc("SchemaParseException", <<"Error parsing JSON">>), v |-> NullSchema]
    ELSE [exc |-> NoExc, v |-> response.schema]

(* A parsed schema that is counted but kept under no key. *)
StoreSchemaNowhere(reg, schema_id, schema) ==
    [schemas |-> reg.schemas,
     lookups |-> Bump(reg.lookups, schema_id),
     stored |-> Bump(reg.stored, schema_id)]

(* Storing a parsed schema under the id requested. *)
StoreSchema(reg, schema_id, schema) ==
    [schemas |-> Put(reg.schemas, schema_id, schema),
     lookups |-> Bump(reg.lookups, schema_id),
     stored |-> Bump(reg.stored, schema_id)]

(* A get that keeps the null schema under the id when the lookup or the     *)
(* parse fails.                                                            *)
RegistryGetCachingFailure(reg, schema_id, up) ==
    IF schema_id.t \in {"list", "dict"}
    THEN [exc |-> Exc("TypeError", <<"unhashable type">>), v |-> NullSchema, reg |-> reg]
    ELSE IF schema_id \in DOMAIN reg.schemas
    THEN [exc |-> NoExc, v |-> reg.schemas[schema_id], reg |-> reg]
    ELSE With([reg EXCEPT !.lookups = Bump(reg.lookups, schema_id),
                          !.schemas = Put(reg.schemas, schema_id, NullSchema)],
              LAMBDA asked :
         With(RegistryResponse(schema_id, up), LAMBDA data :
            IF data.exc # NoExc THEN [exc |-> data.exc, v |-> NullSchema, reg |-> asked]
            ELSE With(ParseRegistryResponse(data.v), LAMBDA parsed :
                IF parsed.exc # NoExc
                THEN [exc |-> parsed.exc, v |-> NullSchema, reg |-> asked]
                ELSE [exc |-> NoExc, v |-> parsed.v,
                      reg |-> StoreSchema(reg, schema_id, parsed.v)])))

(* SpringSchemaRegistry.get: the schema or the exception, and the registry *)
(* object after the call.                                                   *)
RegistryGet(reg, schema_id, up) ==
    IF schema_id.t \in {"list", "dict"}
    THEN [exc |-> Exc("TypeError", <<"unhashable type">>), v |-> NullSchema, reg |-> reg]
    ELSE IF schema_id \in DOMAIN reg.schemas
    THEN [exc |-> NoExc, v |-> reg.schemas[schema_id], reg |-> reg]
    ELSE With([reg EXCEPT !.lookups = Bump(reg.lookups, schema_id)], LAMBDA asked :
         With(RegistryResponse(schema_id, up), LAMBDA data :
            IF data.exc # NoExc THEN [exc |-> data.exc, v |-> NullSchema, reg |-> asked]
            ELSE With(ParseRegistryResponse(data.v), LAMBDA parsed :
                IF parsed.exc # NoExc
                THEN [exc |-> parsed.exc, v |-> NullSchema, reg |-> asked]
                ELSE [exc |-> NoExc, v |-> parsed.v,
                      reg |-> StoreSchema(reg, schema_id, parsed.v)])))

-----------------------------------------------------------------------------
(* KPLClient.  The aggregation envelope is a protobuf message with one      *)
(* repeated field of records, each holding its data as bytes: per record    *)
(* the tag 0x0A, the length, then the record message (0x0A, length, data).  *)

RECURSIVE UVarintBytes(_)
UVarintBytes(n) ==
    IF n < 128 THEN <<n>> ELSE <<128 + (n % 128)>> \o UVarintBytes(n \div 128)

RECURSIVE ReadUVarint(_, _, _, _)
ReadUVarint(buf, p, mult, acc) ==
    IF p >= Len(buf) THEN [ok |-> FALSE, v |-> 0, pos |-> p]
    ELSE LET b == buf[p + 1]
         IN  IF b >= 128 THEN ReadUVarint(buf, p + 1, mult * 128, acc + (b % 128) * mult)
             ELSE [ok |-> TRUE, v |-> acc + b * mult, pos |-> p + 1]

EnvelopeRecord(data) ==
    LET inner == <<10>> \o UVarintBytes(Len(data)) \o data
    IN  <<10>> \o UVarintBytes(Len(inner)) \o inner

RECURSIVE Envelope(_)
Envelope(subs) ==
    IF subs = <<>> THEN <<>> ELSE EnvelopeRecord(Head(subs)) \o Envelope(Tail(subs))

DecodeError == Exc("DecodeError", <<"Error parsing message">>)

RECURSIVE ParseRecords(_, _, _)
ParseRecords(buf, p, acc) ==
    IF p >= Len(buf) THEN [exc |-> NoExc, v |-> acc]
    ELSE With(ReadUVarint(buf, p + 1, 1, 0), LAMBDA outer :
         With(ReadUVarint(buf, outer.pos + 1, 1, 0), LAMBDA inner :
             IF buf[p + 1] # 10 \/ ~outer.ok \/ outer.pos + outer.v > Len(buf)
                \/ outer.pos >= Len(buf) \/ buf[outer.pos + 1] # 10 \/ ~inner.ok
                \/ inner.pos + inner.v # outer.pos + outer.v
             THEN [exc |-> DecodeError, v |-> <<>>]
             ELSE With(Append(acc, SubSeq(buf, inner.pos + 1, inner.pos + inner.v)),
                       LAMBDA parsed :
                      ParseRecords(buf, inner.pos + inner.v, parsed))))

(* AggregatedRecords.ParseFromString(data): the message parsed in place. *)
ParseFromString(data) == ParseRecords(data, 0, <<>>)

(* What the call ParseFromString(data) returns, which line 143 binds to     *)
(* avro_records: the number of bytes read, or None in older protobuf; never *)
(* the message.                                                             *)
ProtobufBuilds == {"returns_length", "returns_none"}

ParseFromStringReturn(data, build) ==
    IF build = "returns_length" THEN PyInt(Len(data)) ELSE PyNone

(* KPLClient.decode: the sub-payloads of avro_records.records. *)
KPLClient_decode(data, build) ==
    With(ParseFromString(data), LAMBDA message :
    With(ParseFromStringReturn(data, build), LAMBDA avro_records :
        IF message.exc # NoExc THEN message
        ELSE IF avro_records.t # "message"
        THEN [exc |-> Exc("AttributeError",
                          <<IF avro_records.t = "int" THEN "'int'" ELSE "'NoneType'",
                            " object has no attribute 'records'">>),
              v |-> <<>>]
        ELSE [exc |-> NoExc, v |-> avro_records.records]))

-----------------------------------------------------------------------------
(* LambdaHandler (springcloud-lambda-udf). *)

SchemaIdKey == <<115, 99, 104, 101, 109, 97, 95, 105, 100>>     \* schema_id

(* list.insert(0, x) in the place of list.append(x). *)
PrependResult(results, x) == <<x>> \o results

(* list.append(x). *)
AppendResult(results, x) == Append(results, x)

(* A loop that reads headers.get("schema_id", "s1") in the place of         *)
(* headers["schema_id"].                                                   *)
RECURSIVE SubPayloadLoopDefaultId(_, _, _, _)
SubPayloadLoopDefaultId(subs, reg, up, records) ==
    IF subs = <<>> THEN [exc |-> NoExc, v |-> PyList(records), reg |-> reg]
    ELSE With(Head(subs), LAMBDA sub_payload :
         With(get_message_headers(sub_payload, 0), LAMBDA hdrs :
             IF hdrs.exc # NoExc THEN [exc |-> hdrs.exc, v |-> PyNone, reg |-> reg]
             ELSE With(RegistryGet(reg, IF DictHas(hdrs.v, SchemaIdKey)
                                        THEN DictGet(hdrs.v, SchemaIdKey) ELSE SchemaId1,
                                   up), LAMBDA schema :
                 IF schema.exc # NoExc
                 THEN [exc |-> schema.exc, v |-> PyNone, reg |-> schema.reg]
                 ELSE With(decode_avro(Read(sub_payload, hdrs.pos, Len(sub_payload)).data,
                                       schema.v), LAMBDA record :
                     IF record.exc # NoExc
                     THEN [exc |-> record.exc, v |-> PyNone, reg |-> schema.reg]
                     ELSE With(AppendResult(records, record.v), LAMBDA appended :
                         SubPayloadLoopDefaultId(Tail(subs), schema.reg, up, appended))))))

(* The loop of decode_spring_kpl_encoded_data over the sub-payloads. *)
RECURSIVE SubPayloadLoop(_, _, _, _)
SubPayloadLoop(subs, reg, up, records) ==
    IF subs = <<>> THEN [exc |-> NoExc, v |-> PyList(records), reg |-> reg]
    ELSE With(Head(subs), LAMBDA sub_payload :
         With(get_message_headers(sub_payload, 0), LAMBDA hdrs :
             IF hdrs.exc # NoExc THEN [exc |-> hdrs.exc, v |-> PyNone, reg |-> reg]
             ELSE IF ~DictHas(hdrs.v, SchemaIdKey)
             THEN [exc |-> Exc("KeyError", <<"'schema_id'">>), v |-> PyNone, reg |-> reg]
             ELSE With(RegistryGet(reg, DictGet(hdrs.v, SchemaIdKey), up), LAMBDA schema :
                 IF schema.exc # NoExc
                 THEN [exc |-> schema.exc, v |-> PyNone, reg |-> schema.reg]
                 ELSE With(decode_avro(Read(sub_payload, hdrs.pos, Len(sub_payload)).data,
                                       schema.v), LAMBDA record :
                     IF record.exc # NoExc
                     THEN [exc |-> record.exc, v |-> PyNone, reg |-> schema.reg]
                     ELSE With(AppendResult(records, record.v), LAMBDA appended :
                         SubPayloadLoop(Tail(subs), schema.reg, up, appended))))))

decode_spring_kpl_encoded_data(data, reg, up, build) ==
    With(KPLClient_decode(data, build), LAMBDA subs :
        IF subs.exc # NoExc THEN [exc |-> subs.exc, v |-> PyNone, reg |-> reg]
        ELSE SubPayloadLoop(subs.v, reg, up, <<>>))

(* _decode_redshift_payload(record[0]). *)
decode_redshift_payload(record) ==
    IF record = <<>>
    THEN [exc |-> Exc("IndexError", <<"list index out of range">>), v |-> <<>>]
    ELSE FromHex(record[1])

(* _redshift_success and _redshift_failure: json.dumps of the envelope,     *)
(* held as [json |-> envelope].                                             *)
ErrorMsg(error) == [text |-> "Error processing Lambda event. Error: ", error |-> error.msg]

redshift_success(data, num_records) ==
    [json |-> [success |-> TRUE, num_records |-> num_records, results |-> data]]

(* A failure envelope that carries a results entry as well. *)
redshift_failure_with_results(error) ==
    [json |-> [success |-> FALSE, error_msg |-> ErrorMsg(error), results |-> <<>>]]

redshift_failure(error) ==
    [json |-> [success |-> FALSE, error_msg |-> ErrorMsg(error)]]

(* The body of the loop of file_handler, for one record. *)
FileRecord(record) ==
    With(decode_redshift_payload(record), LAMBDA data_bytes :
        IF data_bytes.exc # NoExc THEN [exc |-> data_bytes.exc, v |-> PyNone]
        ELSE With(decode_file(data_bytes.v), LAMBDA decoded :
            IF decoded.exc # NoExc THEN [exc |-> decoded.exc, v |-> PyNone]
            ELSE [exc |-> NoExc, v |-> PyStr(JsonDumps(decoded.v))]))

RECURSIVE FileLoop(_, _)
FileLoop(arguments, results) ==
    IF arguments = <<>> THEN [exc |-> NoExc, v |-> results]
    ELSE With(FileRecord(Head(arguments)), LAMBDA one :
             IF one.exc # NoExc THEN [exc |-> one.exc, v |-> <<>>]
             ELSE With(AppendResult(results, one.v), LAMBDA appended :
                      FileLoop(Tail(arguments), appended)))

file_handler(evt) ==
    With(FileLoop(evt.arguments, <<>>), LAMBDA results :
        IF results.exc # NoExc THEN redshift_failure(results.exc)
        ELSE redshift_success(results.v, evt.num_records))

(* The body of the loop of demo_handler, for one record. *)
DemoRecord(record) ==
    With(decode_redshift_payload(record), LAMBDA data_bytes :
        IF data_bytes.exc # NoExc THEN [exc |-> data_bytes.exc, v |-> PyNone]
        ELSE With(decode_avro(data_bytes.v, UserSchema), LAMBDA decoded :
            IF decoded.exc # NoExc THEN [exc |-> decoded.exc, v |-> PyNone]
            ELSE [exc |-> NoExc, v |-> PyStr(JsonDumps(decoded.v))]))

RECURSIVE DemoLoop(_, _)
DemoLoop(arguments, results) ==
    IF arguments = <<>> THEN [exc |-> NoExc, v |-> results]
    ELSE With(DemoRecord(Head(arguments)), LAMBDA one :
             IF one.exc # NoExc THEN [exc |-> one.exc, v |-> <<>>]
             ELSE With(AppendResult(results, one.v), LAMBDA appended :
                      DemoLoop(Tail(arguments), appended)))

demo_handler(evt) ==
    With(DemoLoop(evt.arguments, <<>>), LAMBDA results :
        IF results.exc # NoExc THEN redshift_failure(results.exc)
        ELSE redshift_success(results.v, evt.num_records))

(* The body of the loop of springboot_handler, for one record. *)
SpringRecord(record, reg, up, build) ==
    With(decode_redshift_payload(record), LAMBDA data_bytes :
        IF data_bytes.exc # NoExc THEN [exc |-> data_bytes.exc, v |-> PyNone, reg |-> reg]
        ELSE With(decode_spring_kpl_encoded_data(data_bytes.v, reg, up, build),
                  LAMBDA decoded :
            IF decoded.exc # NoExc
            THEN [exc |-> decoded.exc, v |-> PyNone, reg |-> decoded.reg]
            ELSE [exc |-> NoExc, v |-> PyStr(JsonDumps(decoded.v)), reg |-> decoded.reg]))

RECURSIVE SpringLoop(_, _, _, _, _)
SpringLoop(arguments, reg, up, build, results) ==
    IF arguments = <<>> THEN [exc |-> NoExc, v |-> results, reg |-> reg]
    ELSE With(SpringRecord(Head(arguments), reg, up, build), LAMBDA one :
             IF one.exc # NoExc THEN [exc |-> one.exc, v |-> <<>>, reg |-> one.reg]
             ELSE With(AppendResult(results, one.v), LAMBDA appended :
                      SpringLoop(Tail(arguments), one.reg, up, build, appended)))

(* springboot_handler: the response and the registry object after it. *)
springboot_handler(evt, reg, up, build) ==
    With(SpringLoop(evt.arguments, reg, up, build, <<>>), LAMBDA results :
        [resp |-> IF results.exc # NoExc THEN redshift_failure(results.exc)
                  ELSE redshift_success(results.v, evt.num_records),
         reg |-> results.reg])

-----------------------------------------------------------------------------
(* avro-file-udf: lambda_handler returns the envelope itself, each result   *)
(* being list(json.dumps(list(DataFileReader(...)))).                       *)

AvroFileRecord(record) ==
    With(decode_redshift_payload(record), LAMBDA data_bytes :
        IF data_bytes.exc # NoExc THEN [exc |-> data_bytes.exc, v |-> PyNone]
        ELSE With(decode_file(data_bytes.v), LAMBDA decoded :
            IF decoded.exc # NoExc THEN [exc |-> decoded.exc, v |-> PyNone]
            ELSE [exc |-> NoExc, v |-> ListOfStr(PyStr(JsonDumps(decoded.v)))]))

RECURSIVE AvroFileLoop(_, _)
AvroFileLoop(arguments, results) ==
    IF arguments = <<>> THEN [exc |-> NoExc, v |-> results]
    ELSE With(AvroFileRecord(Head(arguments)), LAMBDA one :
             IF one.exc # NoExc THEN [exc |-> one.exc, v |-> <<>>]
             ELSE With(AppendResult(results, one.v), LAMBDA appended :
                      AvroFileLoop(Tail(arguments), appended)))

avro_file_lambda_handler(evt) ==
    With(AvroFileLoop(evt.arguments, <<>>), LAMBDA results :
        IF results.exc # NoExc
        THEN [success |-> FALSE, error_msg |-> ErrorMsg(results.exc)]
        ELSE [success |-> TRUE, num_records |-> evt.num_records, results |-> results.v])

-----------------------------------------------------------------------------
(* glue-schema-per-stream-udf.  The Glue registry is the environment: a     *)
(* definition per schema (stream) name, and up or down at each request.     *)

LruMaxsize == 32
NumStreams == 34    \* stream names of the long-running cache scenario

Avro == PyStr(<<97, 118, 114, 111>>)        \* avro
Ints == PyStr(<<105, 110, 116, 115>>)       \* ints
Bad == PyStr(<<98, 97, 100>>)               \* bad: its definition does not parse
StreamName(i) == PyStr(<<48 + i>>)

GlueDefinition(stream_name) ==
    IF stream_name = Avro THEN Definition(UserSchema)
    ELSE IF stream_name = Bad THEN Garbage
    ELSE IF stream_name = Ints \/ stream_name \in {StreamName(i) : i \in 0..NumStreams}
    THEN Definition(IntSchema)
    ELSE NotFound

NewCache == [lru |-> <<>>, calls |-> Empty, seen |-> {}]

LruHas(l, k) == \E i \in DOMAIN l : l[i][1] = k
LruIndex(l, k) == CHOOSE i \in DOMAIN l : l[i][1] = k
LruDrop(l, i) == SubSeq(l, 1, i - 1) \o SubSeq(l, i + 1, Len(l))

(* A hit makes the entry the most recent one. *)
LruTouch(l, k) == Append(LruDrop(l, LruIndex(l, k)), l[LruIndex(l, k)])

(* A new entry takes the place of the least recent one of a full cache. *)
LruInsert(l, k, v) ==
    Append(IF Len(l) >= LruMaxsize THEN Tail(l) ELSE l, <<k, v>>)

(* The body of _get_schema: glue.get_schema_version, avro.schema.parse. *)
GlueFetch(stream_name, up) ==
    IF stream_name.t # "str" \/ ~up
    THEN [exc |-> Exc("ClientError", <<"An error occurred when calling GetSchemaVersion">>),
          v |-> NullSchema]
    ELSE With(GlueDefinition(stream_name), LAMBDA definition :
        IF ~definition.found
        THEN [exc |-> Exc("EntityNotFoundException", <<"Schema is not found">>),
              v |-> NullSchema]
        ELSE IF ~definition.parses
        THEN [exc |-> Exc("SchemaParseException", <<"Error parsing JSON">>),
              v |-> NullSchema]
        ELSE [exc |-> NoExc, v |-> definition.schema])

(* _get_schema under functools.lru_cache(maxsize=32). *)
get_schema(cache, stream_name, up) ==
    IF stream_name.t \in {"list", "dict"}
    THEN [exc |-> Exc("TypeError", <<"unhashable type">>), v |-> NullSchema,
          cache |-> cache]
    ELSE IF LruHas(cache.lru, stream_name)
    THEN [exc |-> NoExc, v |-> cache.lru[LruIndex(cache.lru, stream_name)][2],
          cache |-> [cache EXCEPT !.lru = LruTouch(cache.lru, stream_name)]]
    ELSE With([cache EXCEPT !.calls = Bump(cache.calls, stream_name)], LAMBDA called :
         With(GlueFetch(stream_name, up), LAMBDA fetched :
            IF fetched.exc # NoExc
            THEN [exc |-> fetched.exc, v |-> NullSchema, cache |-> called]
            ELSE [exc |-> NoExc, v |-> fetched.v,
                  cache |-> [lru |-> LruInsert(cache.lru, stream_name, fetched.v),
                             calls |-> called.calls,
                             seen |-> cache.seen \cup {stream_name}]]))

(* _avro_to_json(stream_name, data). *)
avro_to_json(stream_name, data, cache, up) ==
    With(get_schema(cache, stream_name, up), LAMBDA schema :
        IF schema.exc # NoExc THEN [exc |-> schema.exc, v |-> PyNone, cache |-> schema.cache]
        ELSE With(FromHex(data), LAMBDA data_bytes :
            IF data_bytes.exc # NoExc
            THEN [exc |-> data_bytes.exc, v |-> PyNone, cache |-> schema.cache]
            ELSE With(decode_avro(data_bytes.v, schema.v), LAMBDA decoded :
                IF decoded.exc # NoExc
                THEN [exc |-> decoded.exc, v |-> PyNone, cache |-> schema.cache]
                ELSE [exc |-> NoExc, v |-> PyStr(JsonDumps(decoded.v)),
                      cache |-> schema.cache])))

(* A loop body that takes the data first and the stream name second. *)
GlueRecordSwapped(record, cache, up) ==
    IF Len(record) < 2
    THEN [exc |-> Exc("ValueError", <<"not enough values to unpack">>), v |-> PyNone,
          cache |-> cache]
    ELSE IF Len(record) > 2
    THEN [exc |-> Exc("ValueError", <<"too many values to unpack">>), v |-> PyNone,
          cache |-> cache]
    ELSE avro_to_json(record[2], record[1], cache, up)

(* for stream_name, data in event["arguments"]: a record of two elements. *)
GlueRecord(record, cache, up) ==
    IF Len(record) < 2
    THEN [exc |-> Exc("ValueError", <<"not enough values to unpack">>), v |-> PyNone,
          cache |-> cache]
    ELSE IF Len(record) > 2
    THEN [exc |-> Exc("ValueError", <<"too many values to unpack">>), v |-> PyNone,
          cache |-> cache]
    ELSE avro_to_json(record[1], record[2], cache, up)

RECURSIVE GlueLoop(_, _, _, _)
GlueLoop(arguments, cache, up, results) ==
    IF arguments = <<>> THEN [exc |-> NoExc, v |-> results, cache |-> cache]
    ELSE With(GlueRecord(Head(arguments), cache, up), LAMBDA one :
             IF one.exc # NoExc THEN [exc |-> one.exc, v |-> <<>>, cache |-> one.cache]
             ELSE GlueLoop(Tail(arguments), one.cache, up, AppendResult(results, one.v)))

(* lambda_handler: the response, json.dumps of the envelope, and the cache. *)
glue_lambda_handler(evt, cache, up) ==
    With(GlueLoop(evt.arguments, cache, up, <<>>), LAMBDA results :
        [resp |-> IF results.exc # NoExc
                  THEN [json |-> [success |-> FALSE,
                                  error_msg |-> [text |-> "Error processing Lambda event. Error: . Event: ",
                                                 error |-> results.exc.msg,
                                                 event |-> evt]]]
                  ELSE [json |-> [success |-> TRUE, num_records |-> evt.num_records,
                                  results |-> results.v]],
         cache |-> results.cache])

-----------------------------------------------------------------------------
(* The header parser called on a buffer, as test_get_message_headers does. *)

NoEvent == [arguments |-> <<>>, num_records |-> 0]
NoResp == [success |-> TRUE, num_records |-> 0, results |-> <<>>]
NoGot == [id |-> PyNone, cached |-> FALSE, outcome |-> "none", v |-> NullSchema]

NoHandler == [name |-> "none", up |-> TRUE, build |-> "returns_length"]

IdleEvt == event = NoEvent /\ handler = NoHandler /\ resp = NoResp
IdleHdr ==
    /\ payload = <<>> /\ pos = 0 /\ pc = "idle" /\ headers = <<>>
    /\ frame = [magic |-> 0, entries |-> <<>>, body |-> <<>>, cut |-> 0]
    /\ exc = NoExc /\ rest = <<>> /\ mapping = <<>>

IdleReg ==
    /\ schemas = NewRegistry.schemas /\ got = NoGot
    /\ lookups = NewRegistry.lookups /\ stored = NewRegistry.stored
IdleGlue ==
    /\ lru = NewCache.lru /\ glueCalls = NewCache.calls /\ seen = NewCache.seen

(* The registry object and the lru cache, as the operators take them. *)
Reg == [schemas |-> schemas, lookups |-> lookups, stored |-> stored]
Cache == [lru |-> lru, calls |-> glueCalls, seen |-> seen]

HdrInit ==
    /\ \E f \in SampleFrames : \E cut \in 0..Len(EncodeFrame(f)) :
          /\ frame = [magic |-> f.magic, entries |-> f.entries, body |-> f.body,
                      cut |-> cut]
          /\ payload = SubSeq(EncodeFrame(f), 1, cut)
    /\ pos = 0
    /\ pc = "start"
    /\ headers = <<>>
    /\ exc = NoExc
    /\ rest = <<>>
    /\ mapping = <<>>

GetMessageHeaders ==
    /\ pc = "start"
    /\ \E r \in {get_message_headers(payload, pos)} :
           /\ pos' = r.pos
           /\ headers' = r.v
           /\ exc' = r.exc
           /\ pc' = IF r.exc = NoExc THEN "returned" ELSE "raised"
    /\ UNCHANGED <<module, payload, frame, rest, mapping, evtVars, regVars, glueVars>>

(* payload.read() after the call: the bytes from the cursor to the end. *)
PayloadRead ==
    /\ pc = "returned"
    /\ \E r \in {Read(payload, pos, Len(payload))} :
           /\ rest' = r.data
           /\ pos' = r.pos
    /\ pc' = "read"
    /\ UNCHANGED <<module, payload, frame, headers, exc, mapping, evtVars, regVars,
                   glueVars>>

(* springboot_handler on a batch whose one record aggregates the buffer as *)
(* its only sub-payload.                                                   *)
SpringbootOnPayload ==
    /\ pc = "start"
    /\ \E up \in BOOLEAN, build \in ProtobufBuilds :
          \E evt \in {[arguments |-> << <<PyStr(ToHex(Envelope(<<payload>>)))>> >>,
                        num_records |-> 1]} :
          \E r \in {springboot_handler(evt, Reg, up, build)} :
              /\ event' = evt
              /\ handler' = [name |-> "springboot_handler", up |-> up, build |-> build]
              /\ resp' = r.resp
              /\ schemas' = r.reg.schemas
              /\ lookups' = r.reg.lookups
              /\ stored' = r.reg.stored
    /\ pc' = "handled"
    /\ UNCHANGED <<module, payload, pos, frame, headers, exc, rest, mapping, got,
                   glueVars>>

(* A sub-payload with the header schema_id: "s1" and a User datum. *)
RoutedSubPayload ==
    EncodeHeaders(MAX_ONE_BYTE_INT,
                  <<[key |-> SchemaIdKey, value |-> <<34, 115, 49, 34>>]>>)
        \o <<0, 0, 2, 2>>

(* The loop of decode_spring_kpl_encoded_data on the sub-payloads that      *)
(* KPLClient.decode is documented to return: the buffer, alone or after a   *)
(* sub-payload that names its schema.  event holds the sub-payloads, resp   *)
(* the records returned or the exception raised.                            *)
DecodeSubPayloads ==
    /\ pc = "start"
    /\ \E up \in BOOLEAN, before \in {<<>>, <<RoutedSubPayload>>} :
          \E r \in {SubPayloadLoop(before \o <<payload>>, Reg, up, <<>>)} :
              /\ event' = [arguments |-> before \o <<payload>>,
                           num_records |-> Len(before) + 1]
              /\ handler' = [name |-> "decode_spring_kpl_encoded_data", up |-> up,
                             build |-> NoHandler.build]
              /\ resp' = [exc |-> r.exc, v |-> r.v]
              /\ schemas' = r.reg.schemas
              /\ lookups' = r.reg.lookups
              /\ stored' = r.reg.stored
    /\ pc' = "decoded"
    /\ UNCHANGED <<module, payload, pos, frame, headers, exc, rest, mapping, got,
                   glueVars>>

HdrNext == GetMessageHeaders \/ PayloadRead \/ SpringbootOnPayload \/ DecodeSubPayloads

InitHeaders ==
    /\ module = "springcloud-lambda-udf"
    /\ HdrInit /\ IdleEvt /\ IdleReg /\ IdleGlue

SpecHeaders == InitHeaders /\ [][HdrNext]_vars

-----------------------------------------------------------------------------
(* The header parser called on the encoding of a header mapping.  A mapping *)
(* is a dict: a sequence of <<key text, value>> pairs with distinct keys.   *)

(* str.encode("utf-8"): code points to bytes. *)
RECURSIVE Utf8Encode(_)
Utf8Encode(cps) ==
    IF \A j \in DOMAIN cps : cps[j] < 128 THEN cps
    ELSE LET c == Head(cps)
             one == IF c < 128 THEN <<c>>
                    ELSE IF c < 2048 THEN <<192 + (c \div 64), 128 + (c % 64)>>
                    ELSE IF c < 65536
                    THEN <<224 + (c \div 4096), 128 + ((c \div 64) % 64), 128 + (c % 64)>>
                    ELSE <<240 + (c \div 262144), 128 + ((c \div 4096) % 64),
                           128 + ((c \div 64) % 64), 128 + (c % 64)>>
         IN  one \o Utf8Encode(Tail(cps))

(* The documented framing of a mapping: each key as UTF-8, each value as    *)
(* the UTF-8 of its JSON text.                                              *)
EncodeMapping(m) ==
    EncodeHeaders(MAX_ONE_BYTE_INT,
                  [i \in DOMAIN m |-> [key |-> Utf8Encode(m[i][1]),
                                       value |-> Utf8Encode(JsonDumps(m[i][2]))]])

(* foo, baz, the empty key and a key outside ASCII. *)
SampleKeys == {Foo, Baz, <<>>, <<233>>}

(* "bar", a text with a quote, a backslash, a line feed and characters      *)
(* outside ASCII and outside the basic plane, -12, true and null.           *)
SampleValues ==
    <<PyStr(<<98, 97, 114>>), PyStr(<<34, 92, 10, 233, 128512>>), PyInt(0 - 12),
      PyBool(TRUE), PyNone>>

DistinctKeys(m) == \A a, b \in DOMAIN m : m[a][1] = m[b][1] => a = b

(* The mappings of at most MaxHeaders entries, each value by its place in   *)
(* SampleValues.                                                            *)
SampleMappings ==
    {m \in SeqsUpTo(SampleKeys \X DOMAIN SampleValues, MaxHeaders) : DistinctKeys(m)}

MappingOf(m) == [i \in DOMAIN m |-> <<m[i][1], SampleValues[m[i][2]]>>]

(* A key of 255 bytes. *)
LongestKey == [i \in 1..MAX_ONE_BYTE_INT |-> 97]

RoundTripInit ==
    /\ \/ \E m \in SampleMappings : mapping = MappingOf(m)
       \/ mapping = << <<LongestKey, PyStr(Foo)>>, <<Foo, PyNone>> >>
    /\ payload = EncodeMapping(mapping) \o Hello
    /\ frame = [magic |-> MAX_ONE_BYTE_INT, entries |-> <<>>, body |-> Hello,
                cut |-> Len(payload)]
    /\ pos = 0
    /\ pc = "start"
    /\ headers = <<>>
    /\ exc = NoExc
    /\ rest = <<>>

InitRoundTrip ==
    /\ module = "springcloud-lambda-udf"
    /\ RoundTripInit /\ IdleEvt /\ IdleReg /\ IdleGlue

RoundTripNext == GetMessageHeaders \/ PayloadRead

SpecRoundTrip == InitRoundTrip /\ [][RoundTripNext]_vars

-----------------------------------------------------------------------------
(* The handlers, invoked again and again in one process.  Each of the three *)
(* Lambda functions is a process of its own.                                *)

UserDatum1 ==       \* {name: Moiraine, favorite_number: 4, favorite_color: Blue}
    <<16, 77, 111, 105, 114, 97, 105, 110, 101, 0, 8, 0, 8, 66, 108, 117, 101>>
UserDatum2 == <<0, 2, 2>>       \* {name: "", favorite_number: null, favorite_color: null}
IntDatum == <<8>>               \* 4
IntFile == FileMagic \o <<0, 4, 8, 1>>          \* a file of the ints 4 and -1
UserFile == FileMagic \o <<1, 2>> \o UserDatum1  \* a file of one User
EmptyEnvelope == Envelope(<<>>)
OneEnvelope ==
    Envelope(<<EncodeHeaders(255, <<[key |-> SchemaIdKey, value |-> <<34, 115, 49, 34>>]>>)
               \o UserDatum1>>)

HexOf(bs) == PyStr(ToHex(bs))
NotHex == PyStr(<<122, 122>>)   \* zz

DemoRecords == {<<HexOf(UserDatum1)>>, <<HexOf(UserDatum2), PyNone>>, <<NotHex>>}
FileRecords == {<<HexOf(IntFile)>>, <<HexOf(UserFile), PyNone>>, <<HexOf(IntDatum)>>}
SpringRecords == {<<HexOf(EmptyEnvelope)>>, <<HexOf(OneEnvelope), PyNone>>, <<HexOf(<<10>>)>>}
GlueRecords ==
    {<<Avro, HexOf(UserDatum1)>>, <<HexOf(UserDatum1), Avro>>, <<HexOf(IntDatum)>>}

Events(records) ==
    {[arguments |-> a, num_records |-> Len(a)] : a \in SeqsUpTo(records, MaxBatch)}

Modules == {"springcloud-lambda-udf", "avro-file-udf", "glue-schema-per-stream-udf"}

Init ==
    /\ module \in Modules
    /\ IdleHdr /\ IdleEvt /\ IdleReg /\ IdleGlue

FileHandler ==
    /\ module = "springcloud-lambda-udf"
    /\ \E evt \in Events(FileRecords) :
          /\ event' = evt
          /\ handler' = [NoHandler EXCEPT !.name = "file_handler"]
          /\ resp' = file_handler(evt)
    /\ UNCHANGED <<module, hdrVars, regVars, glueVars>>

DemoHandler ==
    /\ module = "springcloud-lambda-udf"
    /\ \E evt \in Events(DemoRecords) :
          /\ event' = evt
          /\ handler' = [NoHandler EXCEPT !.name = "demo_handler"]
          /\ resp' = demo_handler(evt)
    /\ UNCHANGED <<module, hdrVars, regVars, glueVars>>

SpringbootHandler ==
    /\ module = "springcloud-lambda-udf"
    /\ \E evt \in Events(SpringRecords), up \in BOOLEAN, build \in ProtobufBuilds :
          \E r \in {springboot_handler(evt, Reg, up, build)} :
              /\ event' = evt
              /\ handler' = [name |-> "springboot_handler", up |-> up, build |-> build]
              /\ resp' = r.resp
              /\ schemas' = r.reg.schemas
              /\ lookups' = r.reg.lookups
              /\ stored' = r.reg.stored
    /\ UNCHANGED <<module, hdrVars, got, glueVars>>

AvroFileLambdaHandler ==
    /\ module = "avro-file-udf"
    /\ \E evt \in Events(FileRecords) :
          /\ event' = evt
          /\ handler' = [NoHandler EXCEPT !.name = "avro_file_lambda_handler"]
          /\ resp' = avro_file_lambda_handler(evt)
    /\ UNCHANGED <<module, hdrVars, regVars, glueVars>>

RECURSIVE SumOf(_, _)
SumOf(f, keys) ==
    IF keys = {} THEN 0
    ELSE LET k == CHOOSE x \in keys : TRUE IN f[k] + SumOf(f, keys \ {k})

(* The model counts at most MaxGets requests to the Glue registry. *)
GlueLambdaHandler ==
    /\ module = "glue-schema-per-stream-udf"
    /\ \E evt \in Events(GlueRecords), up \in BOOLEAN :
          \E r \in {glue_lambda_handler(evt, Cache, up)} :
              /\ SumOf(r.cache.calls, DOMAIN r.cache.calls) <= MaxGets
              /\ event' = evt
              /\ handler' = [name |-> "glue_lambda_handler", up |-> up,
                             build |-> NoHandler.build]
              /\ resp' = r.resp
              /\ lru' = r.cache.lru
              /\ glueCalls' = r.cache.calls
              /\ seen' = r.cache.seen
    /\ UNCHANGED <<module, hdrVars, regVars>>

Next ==
    \/ FileHandler
    \/ DemoHandler
    \/ SpringbootHandler
    \/ AvroFileLambdaHandler
    \/ GlueLambdaHandler

Spec == Init /\ [][Next]_vars

-----------------------------------------------------------------------------
(* SpringSchemaRegistry.get called again and again on one registry object. *)

SampleSchemaIds == {SchemaId1, SchemaId2, SchemaId3, SchemaId4}

RegistryGetCall ==
    \E schema_id \in SampleSchemaIds, up \in BOOLEAN :
        \E r \in {RegistryGet(Reg, schema_id, up)} :
            /\ Count(r.reg.lookups, schema_id) <= MaxGets
            /\ got' = [id |-> schema_id,
                       cached |-> schema_id \in DOMAIN schemas,
                       outcome |-> IF r.exc = NoExc THEN "returned" ELSE r.exc.type,
                       v |-> r.v]
            /\ schemas' = r.reg.schemas
            /\ lookups' = r.reg.lookups
            /\ stored' = r.reg.stored
            /\ UNCHANGED <<module, hdrVars, evtVars, glueVars>>

InitRegistry ==
    /\ module = "springcloud-lambda-udf"
    /\ IdleHdr /\ IdleEvt /\ IdleReg /\ IdleGlue

NextRegistry == RegistryGetCall

SpecRegistry == InitRegistry /\ [][NextRegistry]_vars

-----------------------------------------------------------------------------
(* _get_schema called again and again in one process: for the first stream *)
(* name, for the next name not yet resolved, or for a name whose definition *)
(* does not parse.                                                          *)

NextStream == StreamName(Cardinality(seen))

GetSchemaCall ==
    \E choice \in {<<StreamName(0), TRUE>>, <<StreamName(0), FALSE>>,
                   <<NextStream, TRUE>>, <<Bad, TRUE>>} :
        \E r \in {get_schema(Cache, choice[1], choice[2])} :
            /\ Cardinality(seen) < NumStreams \/ choice[1] # NextStream
            /\ Count(r.cache.calls, choice[1]) <= MaxGets
            /\ got' = [id |-> choice[1],
                       cached |-> LruHas(lru, choice[1]),
                       outcome |-> IF r.exc = NoExc THEN "returned" ELSE r.exc.type,
                       v |-> r.v]
            /\ lru' = r.cache.lru
            /\ glueCalls' = r.cache.calls
            /\ seen' = r.cache.seen
            /\ UNCHANGED <<module, hdrVars, evtVars, schemas, lookups, stored>>

(* A batch of n records of n distinct streams, then a record that raises,   *)
(* then a record of one more stream.  The record that raises has one       *)
(* element, or names a further stream and holds text that is not hex.      *)
LongBatch(n, unpacks) ==
    [i \in 1..n |-> <<StreamName(i - 1), HexOf(IntDatum)>>]
        \o << IF unpacks THEN <<StreamName(n), NotHex>> ELSE <<HexOf(IntDatum)>>,
              <<StreamName(n + 1), HexOf(IntDatum)>> >>

LongEvents ==
    {[arguments |-> LongBatch(n, unpacks), num_records |-> n + 2] :
        n \in {1, LruMaxsize - 1, LruMaxsize, LruMaxsize + 1}, unpacks \in BOOLEAN}

(* lambda_handler invoked once, on a long batch, in a process whose cache  *)
(* is still empty.                                                         *)
GlueBatchCall ==
    /\ Cache = NewCache
    /\ handler = NoHandler
    /\ \E evt \in LongEvents :
          \E r \in {glue_lambda_handler(evt, Cache, TRUE)} :
              /\ event' = evt
              /\ handler' = [name |-> "glue_lambda_handler", up |-> TRUE,
                             build |-> NoHandler.build]
              /\ resp' = r.resp
              /\ lru' = r.cache.lru
              /\ glueCalls' = r.cache.calls
              /\ seen' = r.cache.seen
    /\ UNCHANGED <<module, hdrVars, regVars>>

InitGlue ==
    /\ module = "glue-schema-per-stream-udf"
    /\ IdleHdr /\ IdleEvt /\ IdleReg /\ IdleGlue

NextGlue == GetSchemaCall \/ GlueBatchCall

SpecGlue == InitGlue /\ [][NextGlue]_vars

-----------------------------------------------------------------------------
(* The schema resolver of either function called again and again: the      *)
(* process runs one of the two modules that resolve schemas.               *)

InitResolve ==
    /\ module \in {"springcloud-lambda-udf", "glue-schema-per-stream-udf"}
    /\ IdleHdr /\ IdleEvt /\ IdleReg /\ IdleGlue

NextResolve ==
    \/ module = "springcloud-lambda-udf" /\ RegistryGetCall
    \/ module = "glue-schema-per-stream-udf" /\ GetSchemaCall

SpecResolve == InitResolve /\ [][NextResolve]_vars


-----------------------------------------------------------------------------
(* Properties of get_message_headers, under SpecHeaders. *)

Called == pc \in {"returned", "raised", "read"}

KeyText(e) == Utf8Decode(e.key, 1, <<>>)
ValueText(e) == Utf8Decode(e.value, 1, <<>>)
EntryOk(e) == KeyText(e).ok /\ ValueText(e).ok /\ JsonLoads(ValueText(e).v).ok
Decoded(e) == <<KeyText(e).v, JsonLoads(ValueText(e).v).v>>

HeaderBlockLen == Len(EncodeHeaders(frame.magic, frame.entries))

(* payload is a whole well-formed frame: 0xFF, the count, the entries with *)
(* UTF-8 keys and JSON values, then the body.                              *)
WellFormedFrame ==
    /\ frame.magic = 255
    /\ frame.cut >= HeaderBlockLen
    /\ \A i \in DOMAIN frame.entries : EntryOk(frame.entries[i])

(* The last entry with the key of entry i. *)
LastWithKey(i) ==
    CHOOSE j \in DOMAIN frame.entries :
        /\ frame.entries[j].key = frame.entries[i].key
        /\ \A m \in DOMAIN frame.entries :
              frame.entries[m].key = frame.entries[i].key => m <= j

FirstWithKey(k) ==
    CHOOSE j \in DOMAIN frame.entries :
        /\ KeyText(frame.entries[j]).v = k
        /\ \A m \in DOMAIN frame.entries :
              KeyText(frame.entries[m]).v = k => j <= m

ConsumedHeaderBlock ==
    /\ pos >= HeaderBlockLen
    /\ pc = "returned" => pos = HeaderBlockLen
    /\ pc = "read" => rest = SubSeq(frame.body, 1, frame.cut - HeaderBlockLen)

(* C3 as stated: for every well-formed header frame followed by any body,   *)
(* get_message_headers returns the n decoded key/value pairs, one per entry *)
(* of the frame, and consumes exactly the header block, so that a following *)
(* read returns the body unchanged.                                         *)
C3_AsStated ==
    (Called /\ WellFormedFrame) =>
        /\ pc # "raised"
        /\ headers = [i \in DOMAIN frame.entries |-> Decoded(frame.entries[i])]
        /\ ConsumedHeaderBlock

(* C3, amended: for every well-formed header frame followed by any body,    *)
(* get_message_headers returns the mapping of the decoded entries, one pair *)
(* per distinct key in order of first occurrence, holding the value of the  *)
(* last entry with that key (n pairs when the n keys are distinct), and     *)
(* consumes exactly the header block, so that a following read returns the  *)
(* body unchanged.                                                          *)
C3_HeadersParsed ==
    (Called /\ WellFormedFrame) =>
        /\ pc # "raised"
        /\ Len(headers) = Cardinality({frame.entries[i].key : i \in DOMAIN frame.entries})
        /\ \A i \in DOMAIN frame.entries :
              /\ DictHas(headers, KeyText(frame.entries[i]).v)
              /\ DictGet(headers, KeyText(frame.entries[i]).v)
                    = Decoded(frame.entries[LastWithKey(i)])[2]
        /\ \A a, b \in DOMAIN headers :
              a < b => FirstWithKey(headers[a][1]) < FirstWithKey(headers[b][1])
        /\ ConsumedHeaderBlock

(* The test vector of test_get_message_headers, parsed and read to the end. *)
C3_Witness ==
    /\ pc = "read"
    /\ payload = <<255, 2>> \o <<3>> \o Foo \o <<0, 0, 0, 5>> \o JsonBar
                  \o <<3>> \o Baz \o <<0, 0, 0, 6>> \o JsonQuxx \o Hello
    /\ headers = << <<Foo, PyStr(<<98, 97, 114>>)>>,
                    <<Baz, PyStr(<<113, 117, 120, 120>>)>> >>
    /\ rest = Hello

Truncated ==
    /\ frame.magic = 255
    /\ frame.cut >= 1
    /\ frame.cut < HeaderBlockLen

NamesTruncatedFrame(msg) == \E i \in DOMAIN msg : msg[i] = "TruncatedFrame"

(* C10 as stated: for every input beginning with 0xFF in which some header  *)
(* read would run past the end of the buffer, get_message_headers fails     *)
(* with a TruncatedFrame error, and a batch whose single record is          *)
(* truncated this way yields the failure envelope whose text names          *)
(* TruncatedFrame, with no results.                                         *)
C10_AsStated ==
    Truncated =>
        /\ Called => (pc = "raised" /\ exc.type = "TruncatedFrame")
        /\ pc = "handled" =>
              /\ ~resp.json.success
              /\ "results" \notin DOMAIN resp.json
              /\ NamesTruncatedFrame(resp.json.error_msg.error)

(* C10, amended: for every input beginning with 0xFF that ends inside the   *)
(* header block, get_message_headers raises instead of returning a partial  *)
(* mapping; the error is struct.error ("unpack requires a buffer of N       *)
(* bytes") when the entries before the end decode, and the decoding error   *)
(* of an earlier entry otherwise; there is no TruncatedFrame error.  A      *)
(* batch whose single record holds such a frame yields the failure envelope *)
(* with no results entry, and its text does not name TruncatedFrame.        *)
C10_TruncatedRaises ==
    Truncated =>
        /\ Called =>
              /\ pc = "raised"
              /\ headers = <<>>
              /\ exc.type \in {"struct.error", "UnicodeDecodeError", "JSONDecodeError"}
              /\ (\A i \in DOMAIN frame.entries : EntryOk(frame.entries[i]))
                    => /\ exc.type = "struct.error"
                       /\ exc.msg[1] = "unpack requires a buffer of "
        /\ pc = "handled" =>
              /\ ~resp.json.success
              /\ DOMAIN resp.json = {"success", "error_msg"}
              /\ ~NamesTruncatedFrame(resp.json.error_msg.error)

(* The test vector cut inside the value of its second entry. *)
C10_Witness ==
    /\ pc = "raised"
    /\ payload = <<255, 2>> \o <<3>> \o Foo \o <<0, 0, 0, 5>> \o JsonBar
                  \o <<3>> \o Baz \o <<0, 0, 0, 6>> \o <<34, 113, 117>>
    /\ exc = Exc("struct.error", <<"unpack requires a buffer of ", "6", " bytes">>)

-----------------------------------------------------------------------------
(* Properties of the batch handlers, under Spec.  A step of Spec is one     *)
(* invocation: event', handler' and resp' are its event, its handler and    *)
(* its response; the registry object and the lru cache before it are Reg    *)
(* and Cache.                                                               *)

EnvelopeOf(r) == IF "json" \in DOMAIN r THEN r.json ELSE r

Invoked == handler.name # "none"

(* The loop body of handler h on one record, in the process state env. *)
RecordStep(h, record, env) ==
    IF h.name = "file_handler"
    THEN With(FileRecord(record), LAMBDA r : [exc |-> r.exc, v |-> r.v, env |-> env])
    ELSE IF h.name = "demo_handler"
    THEN With(DemoRecord(record), LAMBDA r : [exc |-> r.exc, v |-> r.v, env |-> env])
    ELSE IF h.name = "avro_file_lambda_handler"
    THEN With(AvroFileRecord(record), LAMBDA r : [exc |-> r.exc, v |-> r.v, env |-> env])
    ELSE IF h.name = "springboot_handler"
    THEN With(SpringRecord(record, env.reg, h.up, h.build), LAMBDA r :
             [exc |-> r.exc, v |-> r.v, env |-> [env EXCEPT !.reg = r.reg]])
    ELSE With(GlueRecord(record, env.cache, h.up), LAMBDA r :
             [exc |-> r.exc, v |-> r.v, env |-> [env EXCEPT !.cache = r.cache]])

(* What each record of the batch does, in input order, each in the process  *)
(* state its predecessor left.                                              *)
RECURSIVE Outcomes(_, _, _)
Outcomes(h, arguments, env) ==
    IF arguments = <<>> THEN <<>>
    ELSE With(RecordStep(h, Head(arguments), env), LAMBDA one :
             <<one>> \o Outcomes(h, Tail(arguments), one.env))

(* Record i raises and no record before it does. *)
FirstErrorAt(outs, i) ==
    /\ outs[i].exc # NoExc
    /\ \A j \in 1..(i - 1) : outs[j].exc = NoExc

(* r is exactly the failure envelope for the exception e. *)
IsFailureOf(r, e) ==
    /\ DOMAIN EnvelopeOf(r) = {"success", "error_msg"}
    /\ EnvelopeOf(r).success = FALSE
    /\ EnvelopeOf(r).error_msg.error = e.msg

RECURSIVE Concat(_)
Concat(l) == IF l = <<>> THEN <<>> ELSE Head(l).v \o Concat(Tail(l))

(* The text of a result: a str, or the characters list(text) made of one. *)
TextOf(x) == IF x.t = "str" THEN x.v ELSE Concat(x.v)

(* C1: for every batch and every handler, if processing of any record       *)
(* raises, the handler returns exactly the failure envelope {success:       *)
(* false, error_msg} whose text carries the description of the first error  *)
(* in input order, with no results entry, however many earlier records      *)
(* decoded successfully.                                                    *)
C1_FirstErrorFailsBatch ==
    [][With(Outcomes(handler', event'.arguments, [reg |-> Reg, cache |-> Cache]),
            LAMBDA outs :
          \A i \in DOMAIN event'.arguments :
              FirstErrorAt(outs, i) => IsFailureOf(resp', outs[i].exc))]_vars

(* demo_handler on a batch whose first record decodes and whose second is   *)
(* not hexadecimal.                                                         *)
C1_Witness ==
    /\ handler.name = "demo_handler"
    /\ event.arguments = << <<HexOf(UserDatum1)>>, <<NotHex>> >>
    /\ resp = [json |-> [success |-> FALSE,
                         error_msg |-> ErrorMsg(FromHex(NotHex).exc)]]

(* C2: for every batch that succeeds, results has exactly one entry per     *)
(* entry of event["arguments"], in the same order: results[i] is the        *)
(* serialization of what was decoded from arguments[i], for every i.        *)
C2_ResultsMirrorArguments ==
    [][EnvelopeOf(resp').success =>
          /\ Len(EnvelopeOf(resp').results) = Len(event'.arguments)
          /\ EnvelopeOf(resp').num_records = event'.num_records
          /\ With(Outcomes(handler', event'.arguments, [reg |-> Reg, cache |-> Cache]),
                  LAMBDA outs :
                \A i \in DOMAIN event'.arguments :
                    /\ outs[i].exc = NoExc
                    /\ TextOf(EnvelopeOf(resp').results[i]) = TextOf(outs[i].v))]_vars

(* demo_handler on a batch of two different users. *)
C2_Witness ==
    /\ handler.name = "demo_handler"
    /\ event.arguments = << <<HexOf(UserDatum1)>>, <<HexOf(UserDatum2), PyNone>> >>
    /\ resp.json.success
    /\ resp.json.results
          = << PyStr(JsonDumps(decode_avro(UserDatum1, UserSchema).v)),
               PyStr(JsonDumps(decode_avro(UserDatum2, UserSchema).v)) >>
    /\ resp.json.results[1] # resp.json.results[2]

(* Every record of the batch is the hex text of an envelope without         *)
(* sub-payloads.                                                            *)
EmptyEnvelopes ==
    /\ event.arguments # <<>>
    /\ \A i \in DOMAIN event.arguments : event.arguments[i][1] = HexOf(EmptyEnvelope)

(* C7 as stated: in springboot_handler a record whose payload is a valid    *)
(* aggregation envelope with zero sub-payloads decodes to an empty          *)
(* sequence, the batch succeeds and the record's result entry is the text   *)
(* "[]".                                                                    *)
C7_AsStated ==
    (handler.name = "springboot_handler" /\ EmptyEnvelopes) =>
        /\ resp.json.success
        /\ resp.json.results = [i \in DOMAIN event.arguments |-> PyStr(<<91, 93>>)]

(* The batch of one empty envelope fails on avro_records.records. *)
C7_Witness ==
    /\ handler.name = "springboot_handler"
    /\ handler.build = "returns_length"
    /\ event.arguments = << <<HexOf(EmptyEnvelope)>> >>
    /\ resp = redshift_failure(Exc("AttributeError",
                                   <<"'int'", " object has no attribute 'records'">>))

(* C8 as stated: in every handler, on success each entry of results is one  *)
(* text value, the JSON serialization of what was decoded from the record   *)
(* (a JSON array text in the file handlers), never a sequence of fragments  *)
(* of that text.                                                            *)
C8_AsStated ==
    (Invoked /\ EnvelopeOf(resp).success) =>
        \A i \in DOMAIN EnvelopeOf(resp).results :
            /\ EnvelopeOf(resp).results[i].t = "str"
            /\ handler.name \in {"file_handler", "avro_file_lambda_handler"}
                  => /\ Head(EnvelopeOf(resp).results[i].v) = 91
                     /\ EnvelopeOf(resp).results[i].v
                           = JsonDumps(decode_file(FromHex(event.arguments[i][1]).v).v)

(* The avro-file-udf handler on a file of the ints 4 and -1: the entry is   *)
(* the list of the characters of "[4, -1]".                                 *)
C8_Witness ==
    /\ handler.name = "avro_file_lambda_handler"
    /\ event.arguments = << <<HexOf(IntFile)>> >>
    /\ resp.success
    /\ resp.results = << PyList(<<PyStr(<<91>>), PyStr(<<52>>), PyStr(<<44>>),
                                  PyStr(<<32>>), PyStr(<<45>>), PyStr(<<49>>),
                                  PyStr(<<93>>)>>) >>

(* The event with every record cut down to its first element. *)
FirstOnly(evt) ==
    [evt EXCEPT !.arguments = [i \in DOMAIN evt.arguments |-> <<evt.arguments[i][1]>>]]

(* The text the glue handler owes for a record read as [hex, stream name]. *)
HexFirst(record) ==
    With(FromHex(record[1]), LAMBDA data_bytes :
        IF data_bytes.exc # NoExc \/ ~GlueDefinition(record[2]).parses
        THEN [ok |-> FALSE, v |-> PyNone]
        ELSE With(decode_avro(data_bytes.v, GlueDefinition(record[2]).schema),
                  LAMBDA decoded :
            [ok |-> decoded.exc = NoExc, v |-> PyStr(JsonDumps(decoded.v))]))

(* The text the glue handler owes for a record read as [stream name, hex]. *)
NameFirst(record) ==
    With(FromHex(record[2]), LAMBDA data_bytes :
        IF data_bytes.exc # NoExc \/ ~GlueDefinition(record[1]).parses
        THEN [ok |-> FALSE, v |-> PyNone]
        ELSE With(decode_avro(data_bytes.v, GlueDefinition(record[1]).schema),
                  LAMBDA decoded :
            [ok |-> decoded.exc = NoExc, v |-> PyStr(JsonDumps(decoded.v))]))

(* C9 as stated: in every handler each inner sequence of event["arguments"] *)
(* is read with its first element as the hexadecimal encoding of the        *)
(* record's bytes and its optional second element as the routing key; in    *)
(* the glue handler the schema is resolved from that routing key and the    *)
(* bytes decoded are those of the first element.                            *)
C9_AsStated ==
    (/\ handler.name = "glue_lambda_handler"
     /\ handler.up
     /\ \A i \in DOMAIN event.arguments :
           Len(event.arguments[i]) = 2 /\ HexFirst(event.arguments[i]).ok) =>
        /\ resp.json.success
        /\ resp.json.results
              = [i \in DOMAIN event.arguments |-> HexFirst(event.arguments[i]).v]

(* C9, amended: file_handler, demo_handler, springboot_handler and the      *)
(* avro-file-udf handler read the first element of each inner sequence as   *)
(* the hexadecimal encoding of the record's bytes and ignore any further    *)
(* element.  The glue handler reads each inner sequence as exactly two      *)
(* elements, the first the stream name (the routing key) the schema is      *)
(* resolved from, the second the hexadecimal encoding of the bytes decoded; *)
(* a sequence of any other length fails the batch.                          *)
C9_RecordLayout ==
    [][/\ handler'.name = "file_handler" => resp' = file_handler(FirstOnly(event'))
       /\ handler'.name = "demo_handler" => resp' = demo_handler(FirstOnly(event'))
       /\ handler'.name = "avro_file_lambda_handler"
             => resp' = avro_file_lambda_handler(FirstOnly(event'))
       /\ handler'.name = "springboot_handler"
             => resp' = springboot_handler(FirstOnly(event'), Reg, handler'.up,
                                           handler'.build).resp
       /\ handler'.name = "glue_lambda_handler" =>
             /\ resp'.json.success =>
                   \A i \in DOMAIN event'.arguments :
                       /\ Len(event'.arguments[i]) = 2
                       /\ NameFirst(event'.arguments[i]).ok
                       /\ resp'.json.results[i] = NameFirst(event'.arguments[i]).v
             /\ (/\ handler'.up
                 /\ \A i \in DOMAIN event'.arguments :
                       Len(event'.arguments[i]) = 2 /\ NameFirst(event'.arguments[i]).ok)
                   => resp'.json.success]_vars

(* The glue handler on the record of test_lambda_handler: ["avro", hex]. *)
C9_Witness ==
    /\ handler.name = "glue_lambda_handler"
    /\ event.arguments = << <<Avro, HexOf(UserDatum1)>> >>
    /\ resp.json.success
    /\ resp.json.results = <<PyStr(JsonDumps(decode_avro(UserDatum1, UserSchema).v))>>

-----------------------------------------------------------------------------
(* Properties of SpringSchemaRegistry.get, under SpecRegistry.  A step is   *)
(* one call: got' is its schema id, whether the id was cached, how the call *)
(* ended and what it returned.                                              *)

(* C5 as stated: the number of external lookups made for an id that has     *)
(* resolved successfully is exactly 1.                                      *)
C5_AsStated ==
    \A id \in DOMAIN schemas : Count(lookups, id) = 1

(* Every cached id is cached under the id that was requested, with the      *)
(* schema the registry holds for it, stored once.                           *)
KeyedByRequestedId ==
    \A id \in DOMAIN schemas :
        /\ id \in DOMAIN RegistryContent
        /\ schemas[id] = RegistryContent[id].schema
        /\ Count(stored, id) = 1
        /\ Count(lookups, id) >= 1

(* C5, amended: for every schema id and every sequence of get calls on one  *)
(* registry object, a get that returns leaves the schema cached under the   *)
(* id it was called with, and after the first successful get(schema_id)     *)
(* every later get(schema_id) returns the cached schema and performs no     *)
(* external lookup.  The lookups made for a resolved id are the failed      *)
(* attempts before its first success plus that one successful lookup: at    *)
(* least 1, and exactly 1 only when no attempt failed before.               *)
C5_CachedAfterFirstSuccess ==
    [][/\ \A id \in DOMAIN schemas :
             /\ id \in DOMAIN schemas'
             /\ schemas'[id] = schemas[id]
             /\ Count(lookups', id) = Count(lookups, id)
             /\ Count(stored', id) = Count(stored, id)
             /\ got'.id = id => (got'.outcome = "returned" /\ got'.v = schemas[id])
       /\ got'.outcome = "returned" =>
             /\ got'.id \in DOMAIN schemas'
             /\ schemas'[got'.id] = got'.v
       /\ DOMAIN schemas' \subseteq DOMAIN schemas \cup {got'.id}
       /\ KeyedByRequestedId']_vars

(* A get answered from the cache, for an id whose first lookup had failed   *)
(* and whose second had succeeded.                                          *)
C5_Witness ==
    /\ got.id = SchemaId1
    /\ got.cached
    /\ got.outcome = "returned"
    /\ got.v = UserSchema
    /\ Count(lookups, SchemaId1) = 2
    /\ Count(stored, SchemaId1) = 1

-----------------------------------------------------------------------------
(* Properties of _get_schema, under SpecGlue.  A step is one call. *)

(* C6 as stated: the schema cache never evicts: once a key has been         *)
(* resolved it stays cached for the rest of the process, so a later resolve *)
(* of that key performs no external lookup, however many other distinct     *)
(* keys are resolved in between.                                            *)
C6_AsStated ==
    [][\A k \in seen :
          /\ LruHas(lru', k)
          /\ Count(glueCalls', k) = Count(glueCalls, k)]_vars

(* The first stream name, resolved once, evicted by LruMaxsize other names, *)
(* and fetched from the Glue registry a second time.                        *)
C6_Witness ==
    /\ got.id = StreamName(0)
    /\ ~got.cached
    /\ got.outcome = "returned"
    /\ Cardinality(seen) > LruMaxsize
    /\ Count(glueCalls, StreamName(0)) = 2

-----------------------------------------------------------------------------
(* Properties of encoding a mapping and parsing it back, under              *)
(* SpecRoundTrip: mapping is what was encoded, headers what was parsed.     *)

(* C11: for every header mapping with distinct keys (at most 255 entries,   *)
(* keys of at most 255 bytes), encoding it with the documented framing and  *)
(* parsing the bytes with get_message_headers reproduces the same keys in   *)
(* the same order with the same JSON-decoded values.                        *)
C11_RoundTrip ==
    Called =>
        /\ pc # "raised"
        /\ headers = mapping
        /\ pc = "read" => rest = Hello

(* A mapping of two entries whose first key is two bytes of UTF-8 and whose *)
(* first value is escaped in its JSON text.                                 *)
C11_Witness ==
    /\ pc = "returned"
    /\ Len(mapping) = 2
    /\ mapping[1][1] = <<233>>
    /\ mapping[1][2].t = "str"
    /\ mapping[1][2].v = <<34, 92, 10, 233, 128512>>
    /\ mapping[2][1] = Foo
    /\ mapping[2][2].t = "int"
    /\ mapping[2][2].v = 0 - 12
    /\ SubSeq(payload, 1, 9) = <<255, 2, 2, 195, 169, 0, 0, 0, 26>>
    /\ headers = mapping

-----------------------------------------------------------------------------
(* Properties of a failed batch of the glue handler, under SpecGlue: the    *)
(* step from a process that has handled nothing to the one that has handled *)
(* its first batch.                                                         *)

FirstBatch == handler.name = "none" /\ handler'.name = "glue_lambda_handler"

(* Processing the record raises, the Glue registry being up. *)
RaisesInGlue(record) == Len(record) # 2 \/ ~NameFirst(record).ok

FirstRaising(arguments) ==
    CHOOSE k \in DOMAIN arguments :
        /\ RaisesInGlue(arguments[k])
        /\ \A j \in 1..(k - 1) : ~RaisesInGlue(arguments[j])

(* The record names a stream that no record up to index k names. *)
NewStreamAfter(arguments, k, j) ==
    /\ Len(arguments[j]) = 2
    /\ \A i \in 1..k : Len(arguments[i]) = 2 => arguments[i][1] # arguments[j][1]

(* C12 as stated: once processing of the record at index k raises, no       *)
(* record at an index greater than k is processed (nothing is decoded for   *)
(* it, no registry lookup is made for it, no cache entry is inserted for    *)
(* it), while the cache entries inserted for the records before the failure *)
(* remain in the cache after the failed batch.                              *)
C12_AsStated ==
    [][(FirstBatch /\ handler'.up /\ ~resp'.json.success) =>
          /\ "results" \notin DOMAIN resp'.json
          /\ \A j \in (FirstRaising(event'.arguments) + 1)..Len(event'.arguments) :
                NewStreamAfter(event'.arguments, FirstRaising(event'.arguments), j) =>
                    /\ Count(glueCalls', event'.arguments[j][1])
                          = Count(glueCalls, event'.arguments[j][1])
                    /\ LruHas(lru', event'.arguments[j][1])
                          => LruHas(lru, event'.arguments[j][1])
          /\ \A j \in 1..(FirstRaising(event'.arguments) - 1) :
                LruHas(lru', event'.arguments[j][1])]_vars

(* The batch of 33 records of 33 streams and a 34th record of one element:  *)
(* the batch has failed, 33 lookups were made, none for the stream of the   *)
(* record after the failure, and the entry of the first record is gone.     *)
C12_Witness ==
    /\ handler.name = "glue_lambda_handler"
    /\ event.arguments = LongBatch(LruMaxsize + 1, FALSE)
    /\ ~resp.json.success
    /\ SumOf(glueCalls, DOMAIN glueCalls) = LruMaxsize + 1
    /\ Count(glueCalls, StreamName(LruMaxsize + 2)) = 0
    /\ Len(lru) = LruMaxsize
    /\ LruHas(lru, StreamName(LruMaxsize))
    /\ ~LruHas(lru, StreamName(0))

-----------------------------------------------------------------------------
(* Properties of a resolve that fails, under SpecResolve.  A step is one    *)
(* call of SpringSchemaRegistry.get or of _get_schema: got' is its id and   *)
(* how it ended.                                                            *)

(* The call ended in an error of the external lookup or of the parse. *)
LookupFailed(g) ==
    g.outcome \in {"HTTPError", "ClientError", "EntityNotFoundException",
                   "SchemaParseException"}

(* C13: a resolve that fails (the external lookup errors, or the response   *)
(* does not parse as a schema) makes exactly one external lookup attempt,   *)
(* propagates the error, and leaves the schema cache exactly as it was      *)
(* before the call: no entry is added for that schema id, so the next       *)
(* resolve of the same id performs a fresh lookup.                          *)
C13_FailedResolve ==
    [][/\ LookupFailed(got') =>
             /\ got'.v = NullSchema
             /\ ~got'.cached
             /\ module = "springcloud-lambda-udf" =>
                   /\ lookups' = Bump(lookups, got'.id)
                   /\ schemas' = schemas
                   /\ stored' = stored
                   /\ got'.id \notin DOMAIN schemas'
             /\ module = "glue-schema-per-stream-udf" =>
                   /\ glueCalls' = Bump(glueCalls, got'.id)
                   /\ lru' = lru
                   /\ seen' = seen
                   /\ ~LruHas(lru', got'.id)
       /\ (LookupFailed(got) /\ got'.id = got.id) =>
             /\ ~got'.cached
             /\ module = "springcloud-lambda-udf" =>
                   Count(lookups', got.id) = Count(lookups, got.id) + 1
             /\ module = "glue-schema-per-stream-udf" =>
                   Count(glueCalls', got.id) = Count(glueCalls, got.id) + 1]_vars

(* The registry holds s1; get("s3"), whose definition does not parse, has   *)
(* failed twice, each time after one lookup, and s3 is not cached.          *)
C13_Witness ==
    /\ module = "springcloud-lambda-udf"
    /\ got.id = SchemaId3
    /\ got.outcome = "SchemaParseException"
    /\ Count(lookups, SchemaId3) = 2
    /\ Count(stored, SchemaId3) = 0
    /\ DOMAIN schemas = {SchemaId1}

-----------------------------------------------------------------------------
(* Properties of decode_spring_kpl_encoded_data on a sub-payload that names *)
(* no schema, under SpecHeaders.                                            *)

(* The buffer has no header block, or a whole well-formed one without the   *)
(* key schema_id.                                                           *)
NamesNoSchema ==
    \/ payload # <<>> /\ payload[1] # MAX_ONE_BYTE_INT
    \/ /\ WellFormedFrame
       /\ \A i \in DOMAIN frame.entries : frame.entries[i].key # SchemaIdKey

(* C14: in decode_spring_kpl_encoded_data a sub-payload that has no header  *)
(* block (first byte not 0xFF) or whose header block lacks the key          *)
(* "schema_id" never produces a decoded value: no registry lookup is made   *)
(* for it and the whole batch returns the failure envelope.                 *)
C14_NoSchemaIdFails ==
    NamesNoSchema =>
        /\ pc = "decoded" =>
              /\ resp.exc # NoExc
              /\ resp.v = PyNone
              /\ (Len(event.arguments) = 1 \/ handler.up) => resp.exc.type = "KeyError"
              /\ lookups = IF Len(event.arguments) = 1 THEN Empty
                           ELSE Put(Empty, SchemaId1, 1)
        /\ pc = "handled" =>
              /\ ~resp.json.success
              /\ DOMAIN resp.json = {"success", "error_msg"}
              /\ lookups = Empty

(* The loop has decoded the sub-payload naming s1, after one lookup, and    *)
(* has raised KeyError on the sub-payload "Hello" preceded by a zero byte   *)
(* and header-like bytes.                                                   *)
C14_Witness ==
    /\ pc = "decoded"
    /\ payload = <<0, 1, 3>> \o Foo \o <<0, 0, 0, 5>> \o JsonBar \o Hello
    /\ event.arguments = <<RoutedSubPayload, payload>>
    /\ resp.exc = Exc("KeyError", <<"'schema_id'">>)
    /\ lookups = Put(Empty, SchemaId1, 1)
    /\ DOMAIN schemas = {SchemaId1}

====
